---- MODULE Spec2Model ----
(***************************************************************************)
(* The bridge of src/chromevox/chromevox/injected/mathjax.js: the message  *)
(* channel between the page and the content script, the dispatcher         *)
(* cvox.MathJax.execMessage, its six handlers and the callbacks they hand   *)
(* to cvox.MathJaxExternalUtil (the math adapter, whose code is not part    *)
(* of the sources at hand and is modelled from its documented interface).   *)
(*                                                                         *)
(* JavaScript runs every event to completion, so one action is one event:  *)
(* the delivery of a message to port1.onmessage, or one invocation of a     *)
(* callback by the adapter.                                                *)
(***************************************************************************)
EXTENDS Naturals, Sequences, FiniteSets

(***************************************************************************)
(* Bounds of the model.                                                    *)
(***************************************************************************)
\* Command envelopes the content script posts in one run.
MaxDispatch == 2
\* Signal firings the adapter passes on in one run.
MaxFirings == 2
\* Calls of cvox.MathJax.initMessage in one run, the one of line 186 included.
MaxInitCalls == 2

(***************************************************************************)
(* Values.                                                                 *)
(***************************************************************************)
\* The value of a missing property (JavaScript's undefined).
Undefined == "undefined"

\* Callback ids (correlation ids) the content script chooses.
CallbackIds == {"1", "2"}
\* cvox ids of the nodes whose alt text is converted.
CvoxIds == {"elemA", "elemB"}
\* Expressions to convert.
Expressions == {"x^2"}
\* MathJax signals.
Signals == {"New Math", "End Math"}
\* Markup the adapter produces.
Markups == {"<math>a</math>", "<math>b</math>"}
\* The jaxs of the page: the markup of each and its inputID.
PageJaxs ==
  { [mml |-> "<math>a</math>", id |-> "MathJax-Element-1"],
    [mml |-> "<math>b</math>", id |-> "MathJax-Element-2"] }

\* The commands of the switch of execMessage, lines 75-90.
KnownCommands ==
  {"Active", "AllJax", "AsciiMathToMml", "InjectScripts", "RegSig", "TexToMml"}

\* The args objects the content script sends: well formed ones, and the
\* empty object.
ConversionArgs == [alt : Expressions, id : CvoxIds]
SignalArgs == [sig : Signals]
EmptyArgs == [name \in {} |-> Undefined]

\* The command envelopes the content script posts: every known command with
\* its well formed args, with the empty object, and with no args at all, and
\* one command the switch does not know.
Messages ==
  [cmd : {"Active", "AllJax", "InjectScripts", "Bogus"}, id : CallbackIds,
   args : {EmptyArgs}]
  \cup [cmd : {"AsciiMathToMml", "TexToMml"}, id : CallbackIds,
        args : ConversionArgs \cup {EmptyArgs}]
  \cup [cmd : {"RegSig"}, id : CallbackIds, args : SignalArgs \cup {EmptyArgs}]
  \cup [cmd : {"TexToMml", "RegSig", "Active", "Bogus"}, id : {"1"}]

\* obj.name of JavaScript: undefined when obj has no such property.
Prop(obj, name) == IF name \in DOMAIN obj THEN obj[name] ELSE Undefined

\* What the adapter does with a request when the math library is absent:
\* it ignores the request, or it fails.
AbsentOutcomes == {"ignore", "throw"}

VARIABLES
  onmessage,     \* channel_.port1.onmessage is set
  port2,         \* where channel_.port2 is: "page" or "transferred"
  broadcasts,    \* the messages posted with window.postMessage, in order
  initCalls,     \* calls of initMessage so far
  initErrors,    \* calls of initMessage that threw
  inbox,         \* messages posted on port2 and not yet delivered to port1
  sent,          \* history: the messages posted on port2, in order
  out,           \* the messages posted with channel_.port1.postMessage, in order
  active,        \* the math library is loaded (MathJaxExternalUtil.isActive())
  conversions,   \* adapter: conversions requested and not completed
  enumerations,  \* adapter: enumerations requested, with the jaxs still to report
  subs,          \* adapter: the signal subscriptions, in order of registration
  scripts,       \* adapter: the scripts injected, in order
  firings,       \* history: how often the adapter was fired for each signal
  fired,         \* history: the callbacks the adapter invoked, in order
  dispatched     \* history: the calls of execMessage, in order, each with its trace

vars ==
  << onmessage, port2, broadcasts, initCalls, initErrors, inbox, sent, out,
     active, conversions, enumerations, subs, scripts, firings, fired,
     dispatched >>

(***************************************************************************)
(* The state an event handler works on, as one record: the variables it    *)
(* may change, and what it reads of the page while it runs.                *)
(*   req       the number of this call of execMessage; it tells the        *)
(*             closures of one call from those of another                  *)
(*   jaxs      the jaxs MathJax.Hub knows during this event                *)
(*   absent    what the adapter does with a request while the library is   *)
(*             absent                                                      *)
(*   execs     the arguments of the calls of execMessage in this event      *)
(*   handlers  the handlers of cvox.MathJax called in this event, in order *)
(*   calls     the calls of cvox.MathJaxExternalUtil in this event         *)
(*   threw     an exception left the event handler                         *)
(***************************************************************************)
Enter(req, jaxs, absent) ==
  [ out |-> out, active |-> active, conversions |-> conversions,
    enumerations |-> enumerations, subs |-> subs, scripts |-> scripts,
    firings |-> firings,
    req |-> req, jaxs |-> jaxs, absent |-> absent,
    execs |-> << >>, handlers |-> << >>, calls |-> << >>, threw |-> FALSE ]

\* The call of handler `name` is recorded in the trace of the event.
Called(s, name) == [s EXCEPT !.handlers = Append(@, name)]

\* The call of a capability of the adapter is recorded in the trace.
Calls(s, call) == [s EXCEPT !.calls = Append(@, call)]

(***************************************************************************)
(* cvox.MathJaxExternalUtil, the math adapter.                             *)
(***************************************************************************)
\* A request the adapter gets while the library is absent.
ExtAbsent(s) ==
  IF s.absent = "throw" THEN [s EXCEPT !.threw = TRUE] ELSE s

\* isActive(): the presence flag.
ExtIsActive(s) == s.active

\* getAllJax(callback): the callback is invoked once for each jax of the page.
ExtGetAllJax(s, callback) ==
  LET s1 == Calls(s, [fn |-> "getAllJax", callback |-> callback,
                      jaxs |-> IF s.active THEN s.jaxs ELSE {}])
  IN  IF ~s1.active THEN ExtAbsent(s1)
      ELSE [s1 EXCEPT !.enumerations =
              IF s1.jaxs = {} THEN @
              ELSE @ \cup {[callback |-> callback, remaining |-> s1.jaxs]}]

\* registerSignal(callback, signal): the callback is invoked at every later
\* firing of the signal.
ExtRegisterSignal(s, callback, signal) ==
  LET s1 == Calls(s, [fn |-> "registerSignal", callback |-> callback,
                      signal |-> signal])
  IN  IF ~s1.active THEN ExtAbsent(s1)
      ELSE [s1 EXCEPT !.subs =
              Append(@, [callback |-> callback, signal |-> signal,
                         since |-> IF signal \in DOMAIN s1.firings
                                   THEN s1.firings[signal] ELSE 0])]

\* texToMml / asciiMathToMml (expr, display, callback): the callback is
\* invoked once, with the markup.
ExtConvert(s, fn, expr, display, callback) ==
  LET s1 == Calls(s, [fn |-> fn, expr |-> expr, display |-> display,
                      callback |-> callback])
  IN  IF ~s1.active THEN ExtAbsent(s1)
      ELSE [s1 EXCEPT !.conversions =
              @ \cup {[fn |-> fn, expr |-> expr, callback |-> callback]}]

ExtTexToMml(s, tex, display, callback) ==
  ExtConvert(s, "texToMml", tex, display, callback)

ExtAsciiMathToMml(s, asciiMath, display, callback) ==
  ExtConvert(s, "asciiMathToMml", asciiMath, display, callback)

\* injectConfigScript(), injectLoadScript(): a script is added to the page.
ExtInjectConfigScript(s) ==
  [Calls(s, [fn |-> "injectConfigScript"]) EXCEPT
     !.scripts = Append(@, "config")]

ExtInjectLoadScript(s) ==
  [Calls(s, [fn |-> "injectLoadScript"]) EXCEPT !.scripts = Append(@, "load")]

(***************************************************************************)
(* cvox.MathJax, the bridge.                                               *)
(***************************************************************************)
\* postMessage with the command and the callback id in each other's place.
postMessageSwapped(s, cmd, callbackId, args) ==
  [s EXCEPT !.out = Append(@, [cmd |-> callbackId, id |-> cmd, args |-> args])]

\* postMessage that puts the message before those already posted.
postMessageFirst(s, cmd, callbackId, args) ==
  [s EXCEPT !.out = << [cmd |-> cmd, id |-> callbackId, args |-> args] >> \o @]

\* postMessage that posts nothing for a callback id it has posted for.
postMessageOncePerId(s, cmd, callbackId, args) ==
  IF \E k \in 1..Len(s.out) : s.out[k].id = callbackId
  THEN s
  ELSE [s EXCEPT
          !.out = Append(@, [cmd |-> cmd, id |-> callbackId, args |-> args])]

\* cvox.MathJax.postMessage, lines 62-64.
postMessage(s, cmd, callbackId, args) ==
  [s EXCEPT !.out = Append(@, [cmd |-> cmd, id |-> callbackId, args |-> args])]

\* getMathmlCallback_ whose closure keeps one callback id for all.
getMathmlCallbackOneId(s, callbackId) ==
  [kind |-> "mathml", callbackId |-> "1", req |-> s.req]

\* The closure cvox.MathJax.getMathmlCallback_ returns, lines 127-132.
getMathmlCallback_(s, callbackId) ==
  [kind |-> "mathml", callbackId |-> callbackId, req |-> s.req]

\* The body with the callback id in the place of the element id.
MathmlCallbackWrongElement(s, callbackId, mml, id) ==
  postMessage(s, "NodeMml", callbackId,
              [mathml |-> mml, elementId |-> callbackId])

\* The body posting with the tag NodeMarkup.
MathmlCallbackOtherTag(s, callbackId, mml, id) ==
  postMessage(s, "NodeMarkup", callbackId, [mathml |-> mml, elementId |-> id])

\* The body posting twice.
MathmlCallbackTwice(s, callbackId, mml, id) ==
  postMessage(
    postMessage(s, "NodeMml", callbackId, [mathml |-> mml, elementId |-> id]),
    "NodeMml", callbackId, [mathml |-> mml, elementId |-> id])

\* The body of that closure, function(mml, id), lines 128-131.
MathmlCallback(s, callbackId, mml, id) ==
  postMessage(s, "NodeMml", callbackId, [mathml |-> mml, elementId |-> id])

\* The closure texToMml and asciiMathToMml hand to the adapter, lines 153-155
\* and 168-170: it keeps callbackId and cvoxId.
ConversionCallback(s, callbackId, cvoxId) ==
  [kind |-> "conversion", callbackId |-> callbackId, cvoxId |-> cvoxId,
   req |-> s.req]

\* The body calling the shared callback without the cvox id.
ConversionCallbackBodyNoId(s, callbackId, cvoxId, mml) ==
  MathmlCallback(s, getMathmlCallback_(s, callbackId).callbackId, mml,
                 Undefined)

\* The body of that closure, function(mml), lines 154 and 169.
ConversionCallbackBody(s, callbackId, cvoxId, mml) ==
  MathmlCallback(s, getMathmlCallback_(s, callbackId).callbackId, mml, cvoxId)

\* cvox.MathJax.getAllJax, lines 102-105.
getAllJax(s, callbackId) ==
  ExtGetAllJax(Called(s, "getAllJax"), getMathmlCallback_(s, callbackId))

\* registerSignal that subscribes a second time.
registerSignalTwice(s, callbackId, signal) ==
  ExtRegisterSignal(
    ExtRegisterSignal(Called(s, "registerSignal"),
                      getMathmlCallback_(s, callbackId), signal),
    getMathmlCallback_(s, callbackId), signal)

\* cvox.MathJax.registerSignal, lines 113-116.
registerSignal(s, callbackId, signal) ==
  ExtRegisterSignal(Called(s, "registerSignal"),
                    getMathmlCallback_(s, callbackId), signal)

\* injectScripts that reports, with a message of its own, that it is done.
injectScriptsReporting(s) ==
  LET s1 == ExtInjectConfigScript(Called(s, "injectScripts"))
  IN  IF s1.threw THEN s1
      ELSE postMessage(ExtInjectLoadScript(s1), "Injected", Undefined,
                       EmptyArgs)

\* injectScripts with its two statements in the other order.
injectScriptsLoadFirst(s) ==
  LET s1 == ExtInjectLoadScript(Called(s, "injectScripts"))
  IN  IF s1.threw THEN s1 ELSE ExtInjectConfigScript(s1)

\* cvox.MathJax.injectScripts, lines 138-141.  The second statement does not
\* run when the first threw.
injectScripts(s) ==
  LET s1 == ExtInjectConfigScript(Called(s, "injectScripts"))
  IN  IF s1.threw THEN s1 ELSE ExtInjectLoadScript(s1)

\* texToMml whose closure keeps the two ids in each other's place.
texToMmlIdsSwapped(s, callbackId, tex, cvoxId) ==
  ExtTexToMml(Called(s, "texToMml"), tex, TRUE,
              ConversionCallback(s, cvoxId, callbackId))

\* texToMml answering at once, with no markup, besides asking the adapter.
texToMmlAnswerNow(s, callbackId, tex, cvoxId) ==
  LET s1 == ExtTexToMml(Called(s, "texToMml"), tex, TRUE,
                        ConversionCallback(s, callbackId, cvoxId))
  IN  MathmlCallback(s1, callbackId, Undefined, cvoxId)

\* cvox.MathJax.texToMml, lines 150-156.
texToMml(s, callbackId, tex, cvoxId) ==
  ExtTexToMml(Called(s, "texToMml"), tex, TRUE,
              ConversionCallback(s, callbackId, cvoxId))

\* cvox.MathJax.asciiMathToMml, lines 165-171.
asciiMathToMml(s, callbackId, asciiMath, cvoxId) ==
  ExtAsciiMathToMml(Called(s, "asciiMathToMml"), asciiMath, TRUE,
                    ConversionCallback(s, callbackId, cvoxId))

\* isActive with a constant in place of the adapter's answer.
isActiveAlwaysTrue(s, callbackId) ==
  LET s1 == Calls(Called(s, "isActive"), [fn |-> "isActive"])
  IN  postMessage(s1, "Active", callbackId, [status |-> TRUE])

\* isActive that answers only when the library is there.
isActiveWhenLoaded(s, callbackId) ==
  LET s1 == Calls(Called(s, "isActive"), [fn |-> "isActive"])
  IN  IF ExtIsActive(s1)
      THEN postMessage(s1, "Active", callbackId, [status |-> TRUE])
      ELSE s1

\* cvox.MathJax.isActive, lines 178-182.
isActive(s, callbackId) ==
  LET s1 == Calls(Called(s, "isActive"), [fn |-> "isActive"])
  IN  postMessage(s1, "Active", callbackId, [status |-> ExtIsActive(s1)])

\* Reading a property of msg.args when msg has no args: a TypeError.
TypeError(s) == [s EXCEPT !.threw = TRUE]

\* execMessage without the break of line 77: 'Active' falls through to the
\* next case.
execMessageFallThrough(s, msg) ==
  LET hasArgs == "args" \in DOMAIN msg
      args == Prop(msg, "args")
  IN  CASE msg.cmd = "Active" -> getAllJax(isActive(s, msg.id), msg.id)
        [] msg.cmd = "AllJax" -> getAllJax(s, msg.id)
        [] msg.cmd = "AsciiMathToMml" ->
             IF hasArgs
             THEN asciiMathToMml(s, msg.id, Prop(args, "alt"), Prop(args, "id"))
             ELSE TypeError(s)
        [] msg.cmd = "InjectScripts" -> injectScripts(s)
        [] msg.cmd = "RegSig" ->
             IF hasArgs
             THEN registerSignal(s, msg.id, Prop(args, "sig"))
             ELSE TypeError(s)
        [] msg.cmd = "TexToMml" ->
             IF hasArgs
             THEN texToMml(s, msg.id, Prop(args, "alt"), Prop(args, "id"))
             ELSE TypeError(s)
        [] OTHER -> s

\* execMessage with a default case that answers the unknown command.
execMessageDefaultReply(s, msg) ==
  LET hasArgs == "args" \in DOMAIN msg
      args == Prop(msg, "args")
  IN  CASE msg.cmd = "Active" -> isActive(s, msg.id)
        [] msg.cmd = "AllJax" -> getAllJax(s, msg.id)
        [] msg.cmd = "AsciiMathToMml" ->
             IF hasArgs
             THEN asciiMathToMml(s, msg.id, Prop(args, "alt"), Prop(args, "id"))
             ELSE TypeError(s)
        [] msg.cmd = "InjectScripts" -> injectScripts(s)
        [] msg.cmd = "RegSig" ->
             IF hasArgs
             THEN registerSignal(s, msg.id, Prop(args, "sig"))
             ELSE TypeError(s)
        [] msg.cmd = "TexToMml" ->
             IF hasArgs
             THEN texToMml(s, msg.id, Prop(args, "alt"), Prop(args, "id"))
             ELSE TypeError(s)
        [] OTHER -> isActive(s, msg.id)

\* execMessage taking an empty object for the args a message does not have.
execMessageArgsOrEmpty(s, msg) ==
  LET args == IF "args" \in DOMAIN msg THEN msg.args ELSE EmptyArgs
  IN  CASE msg.cmd = "Active" -> isActive(s, msg.id)
        [] msg.cmd = "AllJax" -> getAllJax(s, msg.id)
        [] msg.cmd = "AsciiMathToMml" ->
             asciiMathToMml(s, msg.id, Prop(args, "alt"), Prop(args, "id"))
        [] msg.cmd = "InjectScripts" -> injectScripts(s)
        [] msg.cmd = "RegSig" -> registerSignal(s, msg.id, Prop(args, "sig"))
        [] msg.cmd = "TexToMml" ->
             texToMml(s, msg.id, Prop(args, "alt"), Prop(args, "id"))
        [] OTHER -> s

\* cvox.MathJax.execMessage, lines 72-94.  The arguments of a handler are
\* evaluated before the handler is called, so args.alt of an undefined args
\* throws before the call.
execMessage(s, msg) ==
  LET hasArgs == "args" \in DOMAIN msg
      args == Prop(msg, "args")
  IN  CASE msg.cmd = "Active" -> isActive(s, msg.id)
        [] msg.cmd = "AllJax" -> getAllJax(s, msg.id)
        [] msg.cmd = "AsciiMathToMml" ->
             IF hasArgs
             THEN asciiMathToMml(s, msg.id, Prop(args, "alt"), Prop(args, "id"))
             ELSE TypeError(s)
        [] msg.cmd = "InjectScripts" -> injectScripts(s)
        [] msg.cmd = "RegSig" ->
             IF hasArgs
             THEN registerSignal(s, msg.id, Prop(args, "sig"))
             ELSE TypeError(s)
        [] msg.cmd = "TexToMml" ->
             IF hasArgs
             THEN texToMml(s, msg.id, Prop(args, "alt"), Prop(args, "id"))
             ELSE TypeError(s)
        [] OTHER -> s

\* The adapter invokes a callback it was given: one of the two closures above.
\* A conversion passes the markup alone.
Invoke(s, callback, mml, id) ==
  IF callback.kind = "mathml"
  THEN MathmlCallback(s, callback.callbackId, mml, id)
  ELSE ConversionCallbackBody(s, callback.callbackId, callback.cvoxId, mml)

\* The math library fires a signal: the adapter invokes the callbacks
\* registered for it, in the order of their registration.
RECURSIVE InvokeAll(_, _, _, _)
InvokeAll(s, callbacks, mml, id) ==
  IF callbacks = << >> THEN s
  ELSE InvokeAll(Invoke(s, Head(callbacks), mml, id), Tail(callbacks), mml, id)

\* The callbacks registered for a signal, in the order of their registration.
RECURSIVE Listeners(_, _)
Listeners(registered, signal) ==
  IF registered = << >> THEN << >>
  ELSE (IF Head(registered).signal = signal
        THEN << Head(registered).callback >> ELSE << >>)
       \o Listeners(Tail(registered), signal)

\* The invocations of `callbacks` with (mml, id), as entries of `fired`.
Invocations(callbacks, mml, id) ==
  [i \in 1..Len(callbacks) |->
     [callback |-> callbacks[i], mml |-> mml, id |-> id]]

(***************************************************************************)
(* The channel.                                                            *)
(***************************************************************************)
\* The sentinel of line 52.
PortSetup == "cvox.MathJaxPortSetup"

\* The channel of line 35, before initMessage.
NewChannel ==
  [onmessage |-> FALSE, port2 |-> "page", broadcasts |-> << >>, errors |-> 0]

\* initMessage as if every call had a channel of its own to hand over: it
\* posts the sentinel again.
initMessageAgain(c) ==
  [c EXCEPT !.onmessage = TRUE,
            !.broadcasts = Append(@, [data |-> PortSetup,
                                      ports |-> << "port2" >>,
                                      targetOrigin |-> "*"]),
            !.port2 = "transferred"]

\* initMessage that does nothing once the port is handed over.
initMessageOnce(c) ==
  LET c1 == [c EXCEPT !.onmessage = TRUE]
  IN  IF c1.port2 = "page"
      THEN [c1 EXCEPT
              !.broadcasts = Append(@, [data |-> PortSetup,
                                        ports |-> << "port2" >>,
                                        targetOrigin |-> "*"]),
              !.port2 = "transferred"]
      ELSE c1

\* cvox.MathJax.initMessage, lines 48-53.  A port that was transferred is
\* neutered: transferring it again throws a DataCloneError and nothing is
\* posted.
initMessage(c) ==
  LET c1 == [c EXCEPT !.onmessage = TRUE]
  IN  IF c1.port2 = "page"
      THEN [c1 EXCEPT
              !.broadcasts = Append(@, [data |-> PortSetup,
                                        ports |-> << "port2" >>,
                                        targetOrigin |-> "*"]),
              !.port2 = "transferred"]
      ELSE [c1 EXCEPT !.errors = @ + 1]

Channel ==
  [onmessage |-> onmessage, port2 |-> port2, broadcasts |-> broadcasts,
   errors |-> initErrors]

SetChannel(c) ==
  /\ onmessage' = c.onmessage
  /\ port2' = c.port2
  /\ broadcasts' = c.broadcasts
  /\ initErrors' = c.errors

\* What an event handler leaves behind.
Leave(s) ==
  /\ out' = s.out
  /\ conversions' = s.conversions
  /\ enumerations' = s.enumerations
  /\ subs' = s.subs
  /\ scripts' = s.scripts

(***************************************************************************)
(* The state after the script has run (line 186 calls initMessage), in a   *)
(* page where the math library is loaded or not.                           *)
(***************************************************************************)
Init ==
  /\ LET c == initMessage(NewChannel)
     IN  /\ onmessage = c.onmessage
         /\ port2 = c.port2
         /\ broadcasts = c.broadcasts
         /\ initErrors = c.errors
  /\ initCalls = 1
  /\ inbox = << >>
  /\ sent = << >>
  /\ out = << >>
  /\ active \in BOOLEAN
  /\ conversions = {}
  /\ enumerations = {}
  /\ subs = << >>
  /\ scripts = << >>
  /\ firings = [signal \in Signals |-> 0]
  /\ fired = << >>
  /\ dispatched = << >>

\* A further call of cvox.MathJax.initMessage.
InitMessage ==
  /\ initCalls < MaxInitCalls
  /\ initCalls' = initCalls + 1
  /\ SetChannel(initMessage(Channel))
  /\ UNCHANGED << inbox, sent, out, active, conversions, enumerations, subs,
                  scripts, firings, fired, dispatched >>

\* The content script posts a command envelope on the port it was handed.
Send ==
  /\ port2 = "transferred"
  /\ Len(inbox) + Len(dispatched) < MaxDispatch
  /\ \E msg \in Messages :
       /\ inbox' = Append(inbox, msg)
       /\ sent' = Append(sent, msg)
  /\ UNCHANGED << onmessage, port2, broadcasts, initCalls, initErrors, out,
                  active, conversions, enumerations, subs, scripts, firings,
                  fired, dispatched >>

\* The handler of port1 calling execMessage with the command and the id of
\* the message only, its args left behind.
portOnMessageNoArgs(s, evt) ==
  LET msg == [cmd |-> evt.data.cmd, id |-> evt.data.id]
  IN  execMessage([s EXCEPT !.execs = Append(@, msg)], msg)

\* function(evt) { cvox.MathJax.execMessage(evt.data); }, lines 49-51.
portOnMessage(s, evt) ==
  execMessage([s EXCEPT !.execs = Append(@, evt.data)], evt.data)

\* port1 delivers the oldest message posted on port2, as the event `evt`, to
\* its handler.
Deliver ==
  /\ onmessage
  /\ inbox # << >>
  /\ \E jaxs \in SUBSET PageJaxs, absent \in AbsentOutcomes :
       LET msg == Head(inbox)
           s0 == Enter(Len(dispatched) + 1, jaxs, absent)
           s == portOnMessage(s0, [data |-> msg])
       IN  /\ Leave(s)
           /\ dispatched' =
                Append(dispatched,
                       [msg |-> msg, execs |-> s.execs,
                        handlers |-> s.handlers,
                        calls |-> s.calls, threw |-> s.threw,
                        active |-> active, outBefore |-> Len(out),
                        outAfter |-> Len(s.out)])
  /\ inbox' = Tail(inbox)
  /\ UNCHANGED << sent, onmessage, port2, broadcasts, initCalls, initErrors,
                  active, firings, fired >>

\* The adapter completes a conversion: it invokes the callback, once, with
\* the markup.
ConversionDone ==
  /\ \E c \in conversions, mml \in Markups :
       LET s == Invoke(Enter(c.callback.req, {}, "ignore"), c.callback, mml,
                       Undefined)
       IN  /\ Leave([s EXCEPT !.conversions = @ \ {c}])
           /\ fired' = Append(fired, [callback |-> c.callback, mml |-> mml,
                                      id |-> Undefined])
  /\ UNCHANGED << sent, onmessage, port2, broadcasts, initCalls, initErrors, inbox,
                  active, firings, dispatched >>

\* The adapter reports one jax of an enumeration.
EnumerationReport ==
  /\ \E e \in enumerations :
       \E jax \in e.remaining :
         LET s == Invoke(Enter(e.callback.req, {}, "ignore"), e.callback,
                         jax.mml, jax.id)
             rest == e.remaining \ {jax}
         IN  /\ Leave([s EXCEPT !.enumerations =
                         (@ \ {e}) \cup
                           (IF rest = {} THEN {}
                            ELSE {[e EXCEPT !.remaining = rest]})])
             /\ fired' = Append(fired, [callback |-> e.callback,
                                        mml |-> jax.mml, id |-> jax.id])
  /\ UNCHANGED << sent, onmessage, port2, broadcasts, initCalls, initErrors, inbox,
                  active, firings, dispatched >>

\* The signals fired so far.
RECURSIVE Sum(_, _)
Sum(f, S) ==
  IF S = {} THEN 0
  ELSE LET x == CHOOSE y \in S : TRUE IN f[x] + Sum(f, S \ {x})

NumFirings == Sum(firings, Signals)

\* The math library fires a signal for a jax.  The adapter runs only when a
\* callback is registered for the signal: a firing nobody listens to is no
\* event of this script.
SignalFire ==
  /\ active
  /\ NumFirings < MaxFirings
  /\ \E signal \in Signals, jax \in PageJaxs :
       LET listeners == Listeners(subs, signal)
           s == InvokeAll(Enter(0, {}, "ignore"), listeners, jax.mml, jax.id)
       IN  /\ listeners # << >>
           /\ Leave(s)
           /\ fired' = fired \o Invocations(listeners, jax.mml, jax.id)
           /\ firings' = [firings EXCEPT ![signal] = @ + 1]
  /\ UNCHANGED << sent, onmessage, port2, broadcasts, initCalls, initErrors, inbox,
                  active, dispatched >>

\* The math library finishes loading.
LibraryLoaded ==
  /\ ~active
  /\ active' = TRUE
  /\ UNCHANGED << sent, onmessage, port2, broadcasts, initCalls, initErrors, inbox,
                  out, conversions, enumerations, subs, scripts, firings,
                  fired, dispatched >>

Next ==
  \/ InitMessage
  \/ Send
  \/ Deliver
  \/ ConversionDone
  \/ EnumerationReport
  \/ SignalFire
  \/ LibraryLoaded

Spec == Init /\ [][Next]_vars

\* The event loop runs the handler of a message that waits at port1.
FairSpec == Spec /\ WF_vars(Deliver)

(***************************************************************************)
(* Notions the properties are stated with.                                 *)
(***************************************************************************)
Last(seq) == seq[Len(seq)]

\* The calls of execMessage so far, by number.
Dispatches == 1..Len(dispatched)

\* The message is a command envelope {cmd, id, args}: it has an args object.
IsEnvelope(msg) == "args" \in DOMAIN msg

\* The handler the switch of execMessage gives each command.
HandlerOf(cmd) ==
  CASE cmd = "Active" -> "isActive"
    [] cmd = "AllJax" -> "getAllJax"
    [] cmd = "AsciiMathToMml" -> "asciiMathToMml"
    [] cmd = "InjectScripts" -> "injectScripts"
    [] cmd = "RegSig" -> "registerSignal"
    [] cmd = "TexToMml" -> "texToMml"

\* The step is a call of execMessage (a delivery by port1).
IsDispatch == Len(dispatched') = Len(dispatched) + 1

(***************************************************************************)
(* C1.  For every command envelope with one of the six known commands,     *)
(* execMessage calls the handler of that command, once, and no other       *)
(* handler.                                                                *)
(***************************************************************************)
C1_ExactlyTheHandler ==
  \A i \in Dispatches :
    LET d == dispatched[i]
    IN  (IsEnvelope(d.msg) /\ d.msg.cmd \in KnownCommands)
          => d.handlers = << HandlerOf(d.msg.cmd) >>

\* Two envelopes with different commands were dispatched, each to its handler.
C1_Witness ==
  \E i, j \in Dispatches :
    /\ IsEnvelope(dispatched[i].msg)
    /\ IsEnvelope(dispatched[j].msg)
    /\ dispatched[i].msg.cmd = "Active"
    /\ dispatched[i].handlers = << "isActive" >>
    /\ dispatched[j].msg.cmd = "TexToMml"
    /\ dispatched[j].handlers = << "texToMml" >>

(***************************************************************************)
(* C2.  The dispatch of a message whose cmd is none of the six known       *)
(* commands posts nothing, calls no handler and no capability of the       *)
(* adapter, throws nothing, and leaves the messages posted, the            *)
(* subscriptions, the pending conversions and enumerations, the injected   *)
(* scripts and the channel as they were.                                   *)
(***************************************************************************)
C2_UnknownCommandDropped ==
  [][ (IsDispatch /\ Head(inbox).cmd \notin KnownCommands)
        => /\ UNCHANGED << out, conversions, enumerations, subs, scripts,
                           active, firings, fired, onmessage, port2,
                           broadcasts, initErrors >>
           /\ Last(dispatched').msg = Head(inbox)
           /\ Last(dispatched').handlers = << >>
           /\ Last(dispatched').calls = << >>
           /\ ~Last(dispatched').threw ]_vars

\* An unknown command was dispatched while a conversion was pending.
C2_Witness ==
  /\ dispatched # << >>
  /\ Last(dispatched).msg.cmd = "Bogus"
  /\ conversions # {}

(***************************************************************************)
(* C3.  The dispatch of Active with callback id K posts, before            *)
(* execMessage returns, exactly one message, and it is                     *)
(* {cmd: Active, id: K, args: {status: b}} with b the presence flag of the *)
(* adapter at that moment.                                                 *)
(***************************************************************************)
C3_ActiveAnsweredAtOnce ==
  \A i \in Dispatches :
    LET d == dispatched[i]
    IN  d.msg.cmd = "Active"
          => /\ d.outAfter = d.outBefore + 1
             /\ d.outAfter <= Len(out)
             /\ out[d.outAfter] =
                  [cmd |-> "Active", id |-> d.msg.id,
                   args |-> [status |-> d.active]]
             /\ d.active \in BOOLEAN
             /\ ~d.threw

\* Active was answered with status true, and Active was answered with status
\* false.
C3_Witness ==
  /\ \E i \in Dispatches :
       dispatched[i].msg.cmd = "Active" /\ dispatched[i].active
  /\ \E i \in Dispatches :
       dispatched[i].msg.cmd = "Active" /\ ~dispatched[i].active

\* The messages posted with the tag NodeMml, in order.
NodeMmlOut == SelectSeq(out, LAMBDA e : e.cmd = "NodeMml")

\* The invocations (places in `fired`) of the callback that call i of
\* execMessage handed to the adapter.
FiredOf(i) == {k \in 1..Len(fired) : fired[k].callback.req = i}

\* The k-th invocation of a callback posted the k-th NodeMml message, and it
\* is `envelope`.
Posted(k, envelope) == k <= Len(NodeMmlOut) /\ NodeMmlOut[k] = envelope

\* The message a callback posts for callback id K, markup mml, element id.
NodeMml(K, mml, elementId) ==
  [cmd |-> "NodeMml", id |-> K, args |-> [mathml |-> mml, elementId |-> elementId]]

\* How many messages posted so far carry callback id K.
WithId(K) == Cardinality({k \in 1..Len(out) : out[k].id = K})

\* No other call of execMessage so far had the callback id of call i.
UniqueId(i) ==
  \A j \in Dispatches \ {i} : dispatched[j].msg.id # dispatched[i].msg.id

IsConversion(msg) == msg.cmd \in {"TexToMml", "AsciiMathToMml"}

(***************************************************************************)
(* C4.  For a TexToMml or AsciiMathToMml envelope with callback id K and   *)
(* args {alt, id: E} whose callback the adapter has invoked once, with     *)
(* markup m, exactly one message was posted for the request, and it is     *)
(* {cmd: NodeMml, id: K, args: {mathml: m, elementId: E}}.                 *)
(***************************************************************************)
C4_ConversionAnsweredOnce ==
  \A i \in Dispatches :
    LET d == dispatched[i]
    IN  (IsConversion(d.msg) /\ IsEnvelope(d.msg)
           /\ Cardinality(FiredOf(i)) = 1)
          => LET k == CHOOSE k \in FiredOf(i) : TRUE
             IN  /\ Len(NodeMmlOut) = Len(fired)
                 /\ Posted(k, NodeMml(d.msg.id, fired[k].mml,
                                      Prop(d.msg.args, "id")))
                 /\ UniqueId(i) => WithId(d.msg.id) = 1

\* A TexToMml request {id: "2", args: {alt: "x^2", id: "elemA"}} was
\* completed by the adapter and its answer is the only message with id "2".
C4_Witness ==
  \E i \in Dispatches :
    /\ dispatched[i].msg =
         [cmd |-> "TexToMml", id |-> "2",
          args |-> [alt |-> "x^2", id |-> "elemA"]]
    /\ Cardinality(FiredOf(i)) = 1
    /\ UniqueId(i)
    /\ \E k \in 1..Len(out) :
         out[k] = NodeMml("2", "<math>a</math>", "elemA")

\* The subscription call i of execMessage made, if the adapter holds one.
SubsOf(i) == {j \in 1..Len(subs) : subs[j].callback.req = i}

IsRegSig(msg) == msg.cmd = "RegSig" /\ IsEnvelope(msg)

(***************************************************************************)
(* C5.  After a RegSig envelope with signal S and callback id K, every     *)
(* invocation of its callback by the adapter posts one message             *)
(* {cmd: NodeMml, id: K, args: {mathml, elementId}} with the markup and    *)
(* the element id of the invocation; the subscription, once made, stays,   *)
(* and N firings of S since it was made have posted N such messages.       *)
(***************************************************************************)
C5_EveryFiringAnswered ==
  \A i \in Dispatches :
    LET d == dispatched[i]
    IN  IsRegSig(d.msg)
          => /\ \A k \in FiredOf(i) :
                  Posted(k, NodeMml(d.msg.id, fired[k].mml, fired[k].id))
             /\ UniqueId(i) => WithId(d.msg.id) = Cardinality(FiredOf(i))
             /\ d.active <=> SubsOf(i) # {}
             /\ \A j \in SubsOf(i) :
                  /\ subs[j].signal = Prop(d.msg.args, "sig")
                  /\ subs[j].callback.callbackId = d.msg.id
                  /\ subs[j].signal \in Signals =>
                       Cardinality(FiredOf(i)) =
                         firings[subs[j].signal] - subs[j].since

\* A subscription with callback id "2" saw two firings of its signal and two
\* messages with id "2" were posted.
C5_Witness ==
  \E i \in Dispatches :
    /\ IsRegSig(dispatched[i].msg)
    /\ dispatched[i].msg.id = "2"
    /\ UniqueId(i)
    /\ Cardinality(FiredOf(i)) = 2
    /\ WithId("2") = 2

(***************************************************************************)
(* C6.  Two RegSig envelopes for the same signal S with different callback *)
(* ids K1 and K2: every firing of S after both subscriptions posts one     *)
(* message with id K1 and one with id K2, both with the markup and the     *)
(* element id of the firing; and the first subscription is answered as     *)
(* often as without the second.                                            *)
(***************************************************************************)
C6_SubscriptionsIndependent ==
  \A i, j \in Dispatches :
    LET di == dispatched[i]
        dj == dispatched[j]
    IN  (i < j /\ IsRegSig(di.msg) /\ IsRegSig(dj.msg)
           /\ di.msg.args = dj.msg.args /\ di.msg.id # dj.msg.id
           /\ SubsOf(i) # {} /\ SubsOf(j) # {}
           /\ Prop(di.msg.args, "sig") \in Signals)
          => LET S == di.msg.args.sig
                 si == subs[CHOOSE n \in SubsOf(i) : TRUE]
                 sj == subs[CHOOSE n \in SubsOf(j) : TRUE]
             IN  /\ Cardinality(FiredOf(i)) = firings[S] - si.since
                 /\ Cardinality(FiredOf(j)) = firings[S] - sj.since
                 /\ \A kj \in FiredOf(j) :
                      \E ki \in FiredOf(i) :
                        /\ ki < kj
                        /\ \A x \in FiredOf(i) \cup FiredOf(j) :
                             ~(ki < x /\ x < kj)
                        /\ Posted(ki, NodeMml(di.msg.id, fired[kj].mml,
                                              fired[kj].id))
                        /\ Posted(kj, NodeMml(dj.msg.id, fired[kj].mml,
                                              fired[kj].id))

\* Two subscriptions to one signal, with ids "1" and "2", and a firing after
\* both: a message for each.
C6_Witness ==
  /\ Len(dispatched) = 2
  /\ IsRegSig(dispatched[1].msg)
  /\ IsRegSig(dispatched[2].msg)
  /\ dispatched[1].msg.args = dispatched[2].msg.args
  /\ dispatched[1].msg.id # dispatched[2].msg.id
  /\ Cardinality(FiredOf(1)) = 2
  /\ Cardinality(FiredOf(2)) = 1
  /\ Len(out) = 3

\* The jaxs the adapter found at the getAllJax call of dispatch d.
JaxsFound(d) == d.calls[1].jaxs

\* The enumeration call i of execMessage asked for has reported all its jaxs.
EnumerationOver(i) == \A e \in enumerations : e.callback.req # i

(***************************************************************************)
(* C7.  For an AllJax envelope with callback id K, every jax the adapter   *)
(* reports through the callback posts one message                          *)
(* {cmd: NodeMml, id: K, args: {mathml, elementId}} with the markup and    *)
(* the id of that jax; the messages for K are as many as the jaxs          *)
(* reported, all of them once the enumeration is over, and their           *)
(* elementIds differ from one another.                                     *)
(***************************************************************************)
C7_OneMessagePerJax ==
  \A i \in Dispatches :
    LET d == dispatched[i]
    IN  d.msg.cmd = "AllJax"
          => /\ d.handlers = << "getAllJax" >> /\ Len(d.calls) = 1
             /\ \A k \in FiredOf(i) :
                  /\ [mml |-> fired[k].mml, id |-> fired[k].id] \in JaxsFound(d)
                  /\ Posted(k, NodeMml(d.msg.id, fired[k].mml, fired[k].id))
             /\ \A k1, k2 \in FiredOf(i) :
                  (k1 # k2 /\ k1 <= Len(NodeMmlOut) /\ k2 <= Len(NodeMmlOut))
                    => NodeMmlOut[k1].args.elementId
                         # NodeMmlOut[k2].args.elementId
             /\ UniqueId(i) => WithId(d.msg.id) = Cardinality(FiredOf(i))
             /\ EnumerationOver(i) =>
                  Cardinality(FiredOf(i)) = Cardinality(JaxsFound(d))

\* An enumeration of two jaxs is over and two messages with its id, with
\* different elementIds, are posted.
C7_Witness ==
  \E i \in Dispatches :
    /\ dispatched[i].msg.cmd = "AllJax"
    /\ UniqueId(i)
    /\ EnumerationOver(i)
    /\ Cardinality(FiredOf(i)) = 2
    /\ WithId(dispatched[i].msg.id) = 2

\* The calls of execMessage so far with command InjectScripts.
Injections == {i \in Dispatches : dispatched[i].msg.cmd = "InjectScripts"}

(***************************************************************************)
(* C8.  The dispatch of InjectScripts makes two calls of the adapter,      *)
(* injectConfigScript and then injectLoadScript, hands the adapter no      *)
(* callback and posts no message, neither during the dispatch nor later.   *)
(***************************************************************************)
C8_InjectScriptsSilent ==
  /\ \A i \in Injections :
       LET d == dispatched[i]
       IN  /\ d.handlers = << "injectScripts" >>
           /\ d.calls = << [fn |-> "injectConfigScript"],
                           [fn |-> "injectLoadScript"] >>
           /\ d.outAfter = d.outBefore
           /\ ~d.threw
           /\ FiredOf(i) = {}
           /\ UniqueId(i) => WithId(d.msg.id) = 0
  /\ Len(scripts) = 2 * Cardinality(Injections)
  /\ \A n \in 1..Len(scripts) :
       scripts[n] = IF n % 2 = 1 THEN "config" ELSE "load"

\* InjectScripts was dispatched, with an id no other command had, and
\* afterwards another command was answered.
C8_Witness ==
  /\ Len(dispatched) = 2
  /\ dispatched[1].msg.cmd = "InjectScripts"
  /\ dispatched[2].msg.cmd = "TexToMml"
  /\ UniqueId(1)
  /\ scripts = << "config", "load" >>
  /\ Len(out) = 1

\* The commands whose answers are NodeMml messages.
MarkupCommands == {"AllJax", "AsciiMathToMml", "TexToMml", "RegSig"}

(***************************************************************************)
(* C9.  Every message posted is {cmd, id, args} with cmd Active or         *)
(* NodeMml.  An Active message has args {status: boolean} and was posted   *)
(* by the dispatch of an Active command with its id.  A NodeMml message    *)
(* has args {mathml, elementId}, was posted by the invocation of a         *)
(* callback, and carries the callback id of the AllJax, AsciiMathToMml,    *)
(* TexToMml or RegSig command that made the callback.                      *)
(***************************************************************************)
C9_ResultShapes ==
  /\ Len(NodeMmlOut) = Len(fired)
  /\ \A k \in 1..Len(out) :
       LET e == out[k]
       IN  /\ DOMAIN e = {"cmd", "id", "args"}
           /\ e.cmd \in {"Active", "NodeMml"}
           /\ e.cmd = "Active" =>
                /\ DOMAIN e.args = {"status"}
                /\ e.args.status \in BOOLEAN
                /\ \E i \in Dispatches :
                     /\ dispatched[i].msg.cmd = "Active"
                     /\ dispatched[i].msg.id = e.id
                     /\ dispatched[i].outAfter = k
           /\ e.cmd = "NodeMml" =>
                /\ DOMAIN e.args = {"mathml", "elementId"}
                /\ \A i \in Dispatches :
                     ~(dispatched[i].outBefore < k /\ k <= dispatched[i].outAfter)
  /\ \A k \in 1..Len(fired) :
       \E i \in Dispatches :
         /\ fired[k].callback.req = i
         /\ dispatched[i].msg.cmd \in MarkupCommands
         /\ Posted(k, NodeMml(dispatched[i].msg.id, fired[k].mml,
                              IF IsConversion(dispatched[i].msg)
                              THEN Prop(dispatched[i].msg.args, "id")
                              ELSE fired[k].id))

\* An Active message and a NodeMml message were posted.
C9_Witness ==
  /\ \E k \in 1..Len(out) : out[k].cmd = "Active"
  /\ \E k \in 1..Len(out) : out[k].cmd = "NodeMml"

(***************************************************************************)
(* C10.  Messages are posted in the order in which the adapter invokes     *)
(* the callbacks: a step in which the adapter invokes callbacks adds, to   *)
(* the end of the messages posted, one message for each invocation, in     *)
(* the order of the invocations, whatever requests are still pending and   *)
(* whatever the order of their dispatch; nothing posted before moves.      *)
(***************************************************************************)
C10_OrderOfInvocation ==
  [][ LET n == Len(fired') - Len(fired)
      IN  /\ Len(out') >= Len(out)
          /\ SubSeq(out', 1, Len(out)) = out
          /\ IsDispatch => n = 0
          /\ ~IsDispatch =>
               /\ Len(out') = Len(out) + n
               /\ \A m \in 1..n :
                    /\ out'[Len(out) + m].id
                         = fired'[Len(fired) + m].callback.callbackId
                    /\ out'[Len(out) + m].args.mathml
                         = fired'[Len(fired) + m].mml ]_vars

\* Two conversions with different ids: the one dispatched second was
\* completed first, and its message is posted before the other's.
C10_Witness ==
  /\ Len(dispatched) = 2
  /\ IsConversion(dispatched[1].msg)
  /\ IsConversion(dispatched[2].msg)
  /\ dispatched[1].msg.id # dispatched[2].msg.id
  /\ Len(fired) = 2
  /\ fired[1].callback.req = 2
  /\ fired[2].callback.req = 1
  /\ Len(out) = 2
  /\ out[1].id = dispatched[2].msg.id
  /\ out[2].id = dispatched[1].msg.id

(***************************************************************************)
(* C11.  In every state port1 is in the page with its handler set and      *)
(* port2 is handed over, and the hand-over happened once: exactly one      *)
(* message was posted with window.postMessage, the sentinel                *)
(* 'cvox.MathJaxPortSetup' carrying port2, whatever was called since,      *)
(* further calls of initMessage included.                                  *)
(***************************************************************************)
C11_OneHandOver ==
  /\ onmessage
  /\ port2 = "transferred"
  /\ broadcasts = << [data |-> "cvox.MathJaxPortSetup",
                      ports |-> << "port2" >>, targetOrigin |-> "*"] >>

\* initMessage was called again, and a command was dispatched after that.
C11_Witness ==
  /\ initCalls = 2
  /\ dispatched # << >>
  /\ out # << >>

\* The step is a call of initMessage.
IsInitCall == initCalls' = initCalls + 1

(***************************************************************************)
(* C12 as stated: a second call of initMessage makes a second channel and  *)
(* a second sentinel broadcast, so there are as many broadcasts as calls.  *)
(***************************************************************************)
C12_Original == Len(broadcasts) = initCalls

(***************************************************************************)
(* C12, amended.  A second call of initMessage makes no channel and no     *)
(* broadcast: it sets the handler of the same port1 again, and the         *)
(* transfer of port2, which is handed over already, throws.  The           *)
(* broadcasts and the place of port2 stay as they were.                    *)
(***************************************************************************)
C12_SecondCallThrows ==
  [][ IsInitCall
        => /\ onmessage'
           /\ broadcasts' = broadcasts
           /\ port2' = port2
           /\ initErrors' = initErrors + 1
           /\ UNCHANGED << inbox, out >> ]_vars

\* initMessage was called twice: one broadcast, one call that threw.
C12_Witness ==
  /\ initCalls = 2
  /\ initErrors = 1
  /\ Len(broadcasts) = 1

\* The messages posted on port2 are those execMessage was called with, one
\* call each and in the order of posting, followed by those that wait.
DeliveredInOrder ==
  /\ Len(sent) = Len(dispatched) + Len(inbox)
  /\ \A i \in 1..Len(dispatched) :
       i <= Len(sent) /\ dispatched[i].execs = << sent[i] >>
  /\ \A j \in 1..Len(inbox) :
       Len(dispatched) + j <= Len(sent)
         /\ inbox[j] = sent[Len(dispatched) + j]

(***************************************************************************)
(* C13.  Every message posted on port2 reaches execMessage: the n-th       *)
(* message posted is, in the end, the argument of the n-th call of         *)
(* execMessage, of one call only, and with its cmd, id and args as posted. *)
(***************************************************************************)
C13_DeliveredOnceInOrder ==
  /\ []DeliveredInOrder
  /\ \A n \in 1..MaxDispatch :
       (Len(sent) >= n) ~> (Len(dispatched) >= n /\ DeliveredInOrder)

\* Two different messages were posted, and execMessage was called with the
\* first and then with the second.
C13_Witness ==
  /\ Len(sent) = 2
  /\ sent[1] # sent[2]
  /\ IsEnvelope(sent[1])
  /\ Len(dispatched) = 2
  /\ dispatched[1].execs = << sent[1] >>
  /\ dispatched[2].execs = << sent[2] >>

\* The calls of execMessage with a command envelope whose handler hands the
\* adapter a callback.
AsyncDispatches ==
  {i \in Dispatches : /\ dispatched[i].msg.cmd \in MarkupCommands
                      /\ IsEnvelope(dispatched[i].msg)}

(***************************************************************************)
(* C14.  The dispatch of a TexToMml, AsciiMathToMml, AllJax or RegSig      *)
(* envelope posts nothing: it makes one call of the adapter, which gets    *)
(* the callback of this request.  Every invocation of that callback posts  *)
(* a message with the request's id, and the messages with that id are as   *)
(* many as the invocations: none while the callback was never invoked.     *)
(***************************************************************************)
C14_AnsweredOnlyByCallback ==
  \A i \in AsyncDispatches :
    LET d == dispatched[i]
    IN  /\ d.outAfter = d.outBefore
        /\ Len(d.calls) = 1
        /\ d.calls[1].callback.req = i
        /\ d.calls[1].callback.callbackId = d.msg.id
        /\ \A k \in FiredOf(i) :
             k <= Len(NodeMmlOut) /\ NodeMmlOut[k].id = d.msg.id
        /\ UniqueId(i) => WithId(d.msg.id) = Cardinality(FiredOf(i))

\* A conversion was asked for and the adapter has not completed it: no
\* message has its id, while a subscription made by another request was
\* answered twice.
C14_Witness ==
  \E i, j \in AsyncDispatches :
    /\ dispatched[i].msg.cmd = "TexToMml"
    /\ \E c \in conversions : c.callback.req = i
    /\ FiredOf(i) = {}
    /\ WithId(dispatched[i].msg.id) = 0
    /\ dispatched[j].msg.cmd = "RegSig"
    /\ Cardinality(FiredOf(j)) = 2
    /\ WithId(dispatched[j].msg.id) = 2

\* The calls of execMessage made while the library was absent.
AbsentDispatches == {i \in Dispatches : ~dispatched[i].active}

(***************************************************************************)
(* C15.  While the library is absent, the dispatch of Active posts one     *)
(* message, {cmd: Active, id, args: {status: false}}; the dispatch of any  *)
(* other command posts nothing, and later messages with its id are only    *)
(* those the invocations of its callback posted.                           *)
(***************************************************************************)
C15_AbsentAdapter ==
  \A i \in AbsentDispatches :
    LET d == dispatched[i]
    IN  IF d.msg.cmd = "Active"
        THEN /\ d.outAfter = d.outBefore + 1
             /\ d.outAfter <= Len(out)
             /\ out[d.outAfter] = [cmd |-> "Active", id |-> d.msg.id,
                                   args |-> [status |-> FALSE]]
        ELSE /\ d.outAfter = d.outBefore
             /\ UniqueId(i) => WithId(d.msg.id) = Cardinality(FiredOf(i))

\* With the library absent an Active command was answered with status false
\* and a conversion was asked for, which the adapter refused: the one
\* message posted is the answer to Active.
C15_Witness ==
  \E i, j \in AbsentDispatches :
    /\ dispatched[i].msg.cmd = "Active"
    /\ dispatched[j].msg.cmd = "TexToMml"
    /\ IsEnvelope(dispatched[j].msg)
    /\ dispatched[j].threw
    /\ dispatched[j].msg.id # dispatched[i].msg.id
    /\ Len(out) = 1
    /\ out[1].args = [status |-> FALSE]

\* The commands whose case in execMessage reads properties of args.
ArgsCommands == {"AsciiMathToMml", "RegSig", "TexToMml"}

\* The properties of args the case of the command reads.
ArgsRead(cmd) == IF cmd = "RegSig" THEN {"sig"} ELSE {"alt", "id"}

\* The message lacks a property its case reads: it has no args, or its args
\* has not the property.
LacksField(msg) ==
  /\ msg.cmd \in ArgsCommands
  /\ \/ ~IsEnvelope(msg)
     \/ IsEnvelope(msg) /\ \E name \in ArgsRead(msg.cmd) :
                              name \notin DOMAIN msg.args

\* A pending or completed request of the adapter stems from call i.
Registered(i) ==
  \/ \E c \in conversions : c.callback.req = i
  \/ \E e \in enumerations : e.callback.req = i
  \/ SubsOf(i) # {}
  \/ FiredOf(i) # {}

(***************************************************************************)
(* C16 as stated: the dispatch of a TexToMml, AsciiMathToMml or RegSig     *)
(* message that lacks a property its handler reads throws, and no message  *)
(* is ever posted for it.                                                  *)
(***************************************************************************)
C16_Original ==
  \A i \in Dispatches :
    LacksField(dispatched[i].msg)
      => dispatched[i].threw /\ FiredOf(i) = {}

(***************************************************************************)
(* C16, amended.  The dispatch of a TexToMml, AsciiMathToMml or RegSig     *)
(* message throws in execMessage only when the message has no args at      *)
(* all: then no handler and no capability of the adapter is called,        *)
(* nothing is posted for it, then or later, and nothing is done about the  *)
(* fault.  When args is there and lacks the property, nothing is thrown by *)
(* the bridge: the handler is called and hands the adapter undefined in    *)
(* the place of the missing value, with its callback.                      *)
(***************************************************************************)
C16_FaultOnlyWithoutArgs ==
  \A i \in Dispatches :
    LET d == dispatched[i]
    IN  d.msg.cmd \in ArgsCommands =>
          IF ~IsEnvelope(d.msg)
          THEN /\ d.threw
               /\ d.handlers = << >>
               /\ d.calls = << >>
               /\ d.outAfter = d.outBefore
               /\ ~Registered(i)
          ELSE /\ d.handlers = << HandlerOf(d.msg.cmd) >>
               /\ Len(d.calls) = 1
               /\ d.active => ~d.threw
               /\ d.active => Registered(i) \/ d.msg.cmd = "RegSig"
               /\ IF d.msg.cmd = "RegSig"
                  THEN d.calls[1].signal = Prop(d.msg.args, "sig")
                  ELSE /\ d.calls[1].expr = Prop(d.msg.args, "alt")
                       /\ d.calls[1].callback.cvoxId = Prop(d.msg.args, "id")
               /\ d.msg.args = EmptyArgs =>
                    IF d.msg.cmd = "RegSig"
                    THEN d.calls[1].signal = Undefined
                    ELSE /\ d.calls[1].expr = Undefined
                         /\ d.calls[1].callback.cvoxId = Undefined

\* A TexToMml message without args threw in execMessage; a TexToMml message
\* with an empty args did not, its conversion was completed and a message
\* with an undefined elementId was posted for it.
C16_Witness ==
  \E i, j \in Dispatches :
    /\ dispatched[i].msg.cmd = "TexToMml"
    /\ ~IsEnvelope(dispatched[i].msg)
    /\ dispatched[i].threw
    /\ dispatched[j].msg.cmd = "TexToMml"
    /\ IsEnvelope(dispatched[j].msg)
    /\ dispatched[j].msg.args = EmptyArgs
    /\ ~dispatched[j].threw
    /\ FiredOf(j) # {}
    /\ Len(out) = 1
    /\ out[1].cmd = "NodeMml"
    /\ out[1].args.elementId = Undefined

\* The calls of the adapter the case of the command makes for message msg
\* in call i of execMessage, in order.
CallsFor(i, msg) ==
  LET mathml == [kind |-> "mathml", callbackId |-> msg.id, req |-> i]
      conversion == [kind |-> "conversion", callbackId |-> msg.id,
                     cvoxId |-> Prop(msg.args, "id"), req |-> i]
  IN  CASE msg.cmd = "Active" -> << [fn |-> "isActive"] >>
        [] msg.cmd = "AllJax" -> << [fn |-> "getAllJax", callback |-> mathml] >>
        [] msg.cmd = "AsciiMathToMml" ->
             << [fn |-> "asciiMathToMml", expr |-> Prop(msg.args, "alt"),
                 display |-> TRUE, callback |-> conversion] >>
        [] msg.cmd = "InjectScripts" ->
             << [fn |-> "injectConfigScript"], [fn |-> "injectLoadScript"] >>
        [] msg.cmd = "RegSig" ->
             << [fn |-> "registerSignal", callback |-> mathml,
                 signal |-> Prop(msg.args, "sig")] >>
        [] msg.cmd = "TexToMml" ->
             << [fn |-> "texToMml", expr |-> Prop(msg.args, "alt"),
                 display |-> TRUE, callback |-> conversion] >>

\* The call without what the adapter found when it was called.
Asked(call) == [name \in DOMAIN call \ {"jaxs"} |-> call[name]]

\* The requests the adapter holds or has answered for call i of execMessage.
PendingOf(i) == {c \in conversions : c.callback.req = i}

(***************************************************************************)
(* C17.  The dispatch of a command envelope with a known command makes     *)
(* the calls of the adapter of its case, each once and with the values of  *)
(* the message: texToMml(args.alt, true, callback) for TexToMml,            *)
(* asciiMathToMml(args.alt, true, callback) for AsciiMathToMml,            *)
(* registerSignal(callback, args.sig) for RegSig, getAllJax(callback) for  *)
(* AllJax, isActive() for Active, injectConfigScript() and                 *)
(* injectLoadScript() for InjectScripts.  No call is made again later: a   *)
(* conversion is asked of the adapter once however long it stays pending,  *)
(* a subscription is made once, and the scripts injected are two for each  *)
(* InjectScripts.                                                          *)
(***************************************************************************)
C17_EachCallOnce ==
  /\ \A i \in Dispatches :
       LET d == dispatched[i]
       IN  IsEnvelope(d.msg) /\ d.msg.cmd \in KnownCommands
             => /\ Len(d.calls) = Len(CallsFor(i, d.msg))
                /\ \A n \in 1..Len(d.calls) :
                     n <= Len(CallsFor(i, d.msg))
                       /\ Asked(d.calls[n]) = CallsFor(i, d.msg)[n]
                /\ Cardinality(PendingOf(i)) <= 1
                /\ IsConversion(d.msg)
                     => Cardinality(PendingOf(i)) + Cardinality(FiredOf(i)) <= 1
                /\ Cardinality(SubsOf(i)) <= 1
  /\ \A c \in conversions :
       /\ c.callback.req \in Dispatches
       /\ IsConversion(dispatched[c.callback.req].msg)
  /\ Len(scripts) = 2 * Cardinality(Injections)
  /\ Len(subs) <= Cardinality({i \in Dispatches : IsRegSig(dispatched[i].msg)})

\* A TeX conversion was asked of the adapter, in display mode, and is still
\* pending after other events took place: it is in the adapter once.
C17_Witness ==
  \E i \in Dispatches :
    LET d == dispatched[i]
    IN  /\ d.msg.cmd = "TexToMml"
        /\ IsEnvelope(d.msg)
        /\ d.msg.args \in ConversionArgs
        /\ d.calls[1].fn = "texToMml"
        /\ d.calls[1].display
        /\ Cardinality(PendingOf(i)) = 1
        /\ scripts = << "config", "load" >>
        /\ i = 1

\* The calls of execMessage whose message had callback id K.
DispatchesWithId(K) == {i \in Dispatches : dispatched[i].msg.id = K}

\* The invocations of the callbacks of the requests with callback id K.
FiredWithId(K) ==
  {k \in 1..Len(fired) : fired[k].callback.req \in DispatchesWithId(K)}

\* The Active commands dispatched with callback id K.
ActiveWithId(K) ==
  {i \in DispatchesWithId(K) : dispatched[i].msg.cmd = "Active"}

\* The adapter holds, or has answered, what call i of execMessage asked for.
Kept(i) ==
  LET d == dispatched[i]
  IN  /\ IsRegSig(d.msg) /\ d.active => SubsOf(i) # {}
      /\ IsConversion(d.msg) /\ IsEnvelope(d.msg) /\ d.active
           => PendingOf(i) # {} \/ FiredOf(i) # {}

(***************************************************************************)
(* C18.  A callback id used again is not noticed.  When two commands with  *)
(* the same id K are dispatched, neither dispatch throws because of it (a  *)
(* dispatch throws only for a message without args or in the adapter       *)
(* while the library is absent), each hands the adapter a callback of its  *)
(* own, what the first asked for stays with the adapter, every invocation  *)
(* of either callback posts a message with id K, and the messages with id  *)
(* K are those of both requests together.                                  *)
(***************************************************************************)
C18_IdReuseUnnoticed ==
  /\ \A i, j \in Dispatches :
       i < j /\ dispatched[i].msg.id = dispatched[j].msg.id
         => LET di == dispatched[i]
                dj == dispatched[j]
            IN  /\ dj.threw => ~IsEnvelope(dj.msg) \/ ~dj.active
                /\ dj.msg.cmd \in KnownCommands /\ IsEnvelope(dj.msg)
                     => dj.handlers = << HandlerOf(dj.msg.cmd) >>
                /\ \A n \in 1..Len(dj.calls) :
                     "callback" \in DOMAIN dj.calls[n]
                       => dj.calls[n].callback.req = j
                /\ Kept(i)
                /\ Kept(j)
                /\ \A k \in FiredOf(i) \cup FiredOf(j) :
                     k <= Len(NodeMmlOut) /\ NodeMmlOut[k].id = di.msg.id
  /\ \A K \in CallbackIds :
       WithId(K) = Cardinality(FiredWithId(K)) + Cardinality(ActiveWithId(K))

\* Two conversions were asked for with the same callback id and different
\* elements; both were completed, and there are two messages with that id,
\* one for each element.
C18_Witness ==
  /\ Len(dispatched) = 2
  /\ IsConversion(dispatched[1].msg)
  /\ IsConversion(dispatched[2].msg)
  /\ dispatched[1].msg.id = dispatched[2].msg.id
  /\ FiredOf(1) # {}
  /\ FiredOf(2) # {}
  /\ Len(out) = 2
  /\ out[1].id = dispatched[1].msg.id
  /\ out[2].id = dispatched[1].msg.id
  /\ out[1].args.elementId # out[2].args.elementId

\* The invocations of the callbacks of TexToMml and AsciiMathToMml requests.
ConversionsFired ==
  {k \in 1..Len(fired) : fired[k].callback.kind = "conversion"}

(***************************************************************************)
(* C19.  Whatever the order in which the adapter completes the conversions *)
(* asked for, the message posted at a completion has the callback id and   *)
(* the element id (args.id) of the one request whose conversion it is,     *)
(* and the markup the adapter gave for it: never the callback id of one    *)
(* request with the element id of another.                                 *)
(***************************************************************************)
C19_IdsOfTheSameRequest ==
  \A k \in ConversionsFired :
    LET i == fired[k].callback.req
    IN  /\ i \in Dispatches
        /\ IsConversion(dispatched[i].msg)
        /\ IsEnvelope(dispatched[i].msg)
        /\ k <= Len(NodeMmlOut)
        /\ NodeMmlOut[k].id = dispatched[i].msg.id
        /\ NodeMmlOut[k].args.elementId = Prop(dispatched[i].msg.args, "id")
        /\ NodeMmlOut[k].args.mathml = fired[k].mml

\* Two conversions with different callback ids and different elements were
\* pending together; the second was completed first, and the one message
\* posted has the second's callback id and element.
C19_Witness ==
  /\ Len(dispatched) = 2
  /\ dispatched[1].msg.cmd = "TexToMml"
  /\ dispatched[2].msg.cmd = "AsciiMathToMml"
  /\ dispatched[1].msg.id # dispatched[2].msg.id
  /\ IsEnvelope(dispatched[1].msg)
  /\ IsEnvelope(dispatched[2].msg)
  /\ dispatched[1].msg.args \in ConversionArgs
  /\ dispatched[2].msg.args \in ConversionArgs
  /\ dispatched[1].msg.args.id # dispatched[2].msg.args.id
  /\ PendingOf(1) # {}
  /\ ConversionsFired = {1}
  /\ fired[1].callback.req = 2
  /\ Len(out) = 1
  /\ out[1].id = dispatched[2].msg.id
  /\ out[1].args.elementId = dispatched[2].msg.args.id

\* The Active commands dispatched so far.
ActiveDispatches == {i \in Dispatches : dispatched[i].msg.cmd = "Active"}

(***************************************************************************)
(* C20.  Every message posted so far has the callback id of a message      *)
(* that was dispatched before it was posted, and the messages posted are   *)
(* as many as the Active commands dispatched and the invocations of        *)
(* callbacks by the adapter together.                                      *)
(***************************************************************************)
C20_OnlyAnswers ==
  /\ \A k \in 1..Len(out) :
       \E i \in Dispatches :
         /\ dispatched[i].msg.id = out[k].id
         /\ dispatched[i].outBefore < k
  /\ Len(out) = Cardinality(ActiveDispatches) + Len(fired)

\* One Active command and a subscription whose callback was invoked twice:
\* three messages.
C20_Witness ==
  /\ Cardinality(ActiveDispatches) = 1
  /\ Len(fired) = 2
  /\ Len(out) = 3
  /\ Len(dispatched) = 2

====
